---- MODULE Spec2Model ----
(***************************************************************************)
(* Model of the currency converter of BOR-conversions (src/src/currency.rs *)
(* and strip_suffixes of src/src/lib.rs).                                  *)
(*                                                                         *)
(* Text is modelled as a sequence of characters (one-character strings),   *)
(* so that to_lowercase, ends_with, starts_with, strip_suffix,             *)
(* strip_prefix, trim and the number parser act on it as the code does.    *)
(* Rendered results (Display, format!) are TLA+ strings.                   *)
(*                                                                         *)
(* f64 amounts and rates are modelled as exact rationals [n, d]: the model *)
(* keeps the order and the direction of every arithmetic step of the code  *)
(* (value / rate on parsing, rate * value on display, {:.2} on rendering)  *)
(* but not the binary rounding error of f64.                               *)
(*                                                                         *)
(* Time is counted in ticks; a calendar day has DayLen ticks, and          *)
(* DateTime::time() is the tick within the day.                            *)
(***************************************************************************)
EXTENDS Integers, Sequences, FiniteSets, TLC

VARIABLES now, converter, last

vars == <<now, converter, last>>

-----------------------------------------------------------------------------
(* Bounds of the model *)

\* ticks in one calendar day (the period of DateTime::time())
DayLen == 3

\* the last instant the clock reaches
MaxTime == 4

\* max_age ranges over 0..MaxAge ticks
MaxAge == 1

-----------------------------------------------------------------------------
(* Characters and text *)

UpperCase ==
    <<"A", "B", "C", "D", "E", "F", "G", "H", "I", "J", "K", "L", "M",
      "N", "O", "P", "Q", "R", "S", "T", "U", "V", "W", "X", "Y", "Z">>

LowerCase ==
    <<"a", "b", "c", "d", "e", "f", "g", "h", "i", "j", "k", "l", "m",
      "n", "o", "p", "q", "r", "s", "t", "u", "v", "w", "x", "y", "z">>

Digits == <<"0", "1", "2", "3", "4", "5", "6", "7", "8", "9">>

\* char::to_lowercase on the characters of the model's alphabet
LowerChar(c) ==
    IF \E i \in DOMAIN UpperCase : UpperCase[i] = c
    THEN LowerCase[CHOOSE i \in DOMAIN UpperCase : UpperCase[i] = c]
    ELSE c

\* str::to_lowercase
to_lowercase(s) == [i \in 1..Len(s) |-> LowerChar(s[i])]

\* str::ends_with
ends_with(s, suffix) ==
    /\ Len(s) >= Len(suffix)
    /\ SubSeq(s, Len(s) - Len(suffix) + 1, Len(s)) = suffix

\* str::starts_with
starts_with(s, prefix) ==
    /\ Len(s) >= Len(prefix)
    /\ SubSeq(s, 1, Len(prefix)) = prefix

\* `match s.strip_suffix(x) { Some(s) => s, None => &s }`
strip_suffix(s, suffix) ==
    IF ends_with(s, suffix) THEN SubSeq(s, 1, Len(s) - Len(suffix)) ELSE s

\* `match s.strip_prefix(c) { Some(s) => s, None => &s }`
strip_prefix(s, prefix) ==
    IF starts_with(s, prefix) THEN SubSeq(s, Len(prefix) + 1, Len(s)) ELSE s

\* strip_suffixes of lib.rs: strips each suffix of the list once, in order
RECURSIVE strip_suffixes(_, _)
strip_suffixes(input, suffixes) ==
    IF suffixes = <<>> THEN input
    ELSE strip_suffixes(strip_suffix(input, Head(suffixes)), Tail(suffixes))

IsSpace(c) == c = " "

RECURSIVE trim_start(_)
trim_start(s) ==
    IF s # <<>> /\ IsSpace(Head(s)) THEN trim_start(Tail(s)) ELSE s

RECURSIVE trim_end(_)
trim_end(s) ==
    IF s # <<>> /\ IsSpace(s[Len(s)])
    THEN trim_end(SubSeq(s, 1, Len(s) - 1))
    ELSE s

\* str::trim
trim(s) == trim_end(trim_start(s))

\* the text of a character sequence as one string ({input} in a format!)
RECURSIVE Join(_)
Join(s) == IF s = <<>> THEN "" ELSE Head(s) \o Join(Tail(s))

-----------------------------------------------------------------------------
(* Rational arithmetic standing for f64 *)

Abs(x) == IF x < 0 THEN -x ELSE x

RECURSIVE GCD(_, _)
GCD(a, b) == IF b = 0 THEN a ELSE GCD(b, a % b)

\* the rational n/d in lowest terms, d > 0
Rat(n, d) ==
    LET g == GCD(Abs(n), Abs(d))
        sgn == IF d < 0 THEN -1 ELSE 1
    IN [n |-> sgn * (n \div g), d |-> sgn * (d \div g)]

\* a * b
RatMul(a, b) ==
    LET g1 == GCD(Abs(a.n), b.d)
        g2 == GCD(Abs(b.n), a.d)
        h1 == IF g1 = 0 THEN 1 ELSE g1
        h2 == IF g2 = 0 THEN 1 ELSE g2
    IN Rat((a.n \div h1) * (b.n \div h2), (a.d \div h2) * (b.d \div h1))

\* a / b, b # 0
RatDiv(a, b) == RatMul(a, Rat(b.d, b.n))

RECURSIVE Pow10(_)
Pow10(k) == IF k = 0 THEN 1 ELSE 10 * Pow10(k - 1)

IsDigit(c) == \E i \in DOMAIN Digits : Digits[i] = c

DigitVal(c) == (CHOOSE i \in DOMAIN Digits : Digits[i] = c) - 1

\* the value of a sequence of decimal digits
RECURSIVE DigitsVal(_)
DigitsVal(s) ==
    IF s = <<>> THEN 0
    ELSE 10 * DigitsVal(SubSeq(s, 1, Len(s) - 1)) + DigitVal(s[Len(s)])

\* <f64 as FromStr>::from_str on decimal literals: an optional sign, digits
\* with at most one '.', at least one digit.  (Exponents and the words inf,
\* infinity and nan, which f64 also accepts, are not in the model's inputs.)
parse_f64(s) ==
    LET signed == s # <<>> /\ Head(s) \in {"+", "-"}
        neg == s # <<>> /\ Head(s) = "-"
        body == IF signed THEN Tail(s) ELSE s
        dots == {i \in 1..Len(body) : body[i] = "."}
        digs == SelectSeq(body, IsDigit)
        frac == IF dots = {} THEN 0
                ELSE Len(body) - (CHOOSE i \in dots : TRUE)
        wellFormed ==
            /\ \A i \in 1..Len(body) : IsDigit(body[i]) \/ body[i] = "."
            /\ Cardinality(dots) <= 1
            /\ Len(digs) >= 1
    IN IF s = <<>>
       THEN [ok |-> FALSE, message |-> "cannot parse float from empty string"]
       ELSE IF ~wellFormed
       THEN [ok |-> FALSE, message |-> "invalid float literal"]
       ELSE [ok |-> TRUE,
             value |-> Rat((IF neg THEN -1 ELSE 1) * DigitsVal(digs), Pow10(frac))]

\* the decimal digits of a natural number
RECURSIVE NatStr(_)
NatStr(n) ==
    IF n < 10 THEN Digits[n + 1]
    ELSE NatStr(n \div 10) \o Digits[(n % 10) + 1]

\* {value:.2}: the value rounded to two decimals, ties to even, with its sign
Fmt2(v) ==
    LET a == Abs(v.n) * 100
        q == a \div v.d
        r == a % v.d
        cents == IF 2 * r > v.d \/ (2 * r = v.d /\ q % 2 = 1) THEN q + 1 ELSE q
        frac == cents % 100
    IN (IF v.n < 0 THEN "-" ELSE "")
           \o NatStr(cents \div 100) \o "."
           \o Digits[(frac \div 10) + 1] \o Digits[(frac % 10) + 1]

-----------------------------------------------------------------------------
(* Exchange rates and the rate source *)

\* the string literals of Currency::from_str and run, as character sequences
Lit ==
    [usd |-> <<"u", "s", "d">>,
     dollar |-> <<"d", "o", "l", "l", "a", "r">>,
     quid |-> <<"q", "u", "i", "d">>,
     pound |-> <<"p", "o", "u", "n", "d">>,
     pounds |-> <<"p", "o", "u", "n", "d", "s">>,
     sterling |-> <<"s", "t", "e", "r", "l", "i", "n", "g">>,
     gbp |-> <<"g", "b", "p">>,
     eur |-> <<"e", "u", "r">>,
     euro |-> <<"e", "u", "r", "o">>,
     eruo |-> <<"e", "r", "u", "o">>,
     rub |-> <<"r", "u", "b">>,
     ruble |-> <<"r", "u", "b", "l", "e">>,
     amd |-> <<"a", "m", "d">>,
     dram |-> <<"d", "r", "a", "m">>,
     cad |-> <<"c", "a", "d">>,
     aud |-> <<"a", "u", "d">>,
     yen |-> <<"y", "e", "n">>,
     jpy |-> <<"j", "p", "y">>,
     pkr |-> <<"p", "k", "r">>,
     pakistani_rupee |->
         <<"p", "a", "k", "i", "s", "t", "a", "n", "i", " ", "r", "u", "p", "e", "e">>,
     sym_usd |-> <<"$">>,
     sym_gbp |-> <<"£">>,
     sym_eur |-> <<"€">>,
     sym_jpy |-> <<"¥">>]

CurrencyType == {"Eur", "Usd", "Cad", "Rub", "Jpy", "Aud", "Amd", "Gbp", "Pkr"}

\* Display for CurrencyType
CurrencyTypeString(c) ==
    CASE c = "Usd" -> "Dollar(s) [USD]"
      [] c = "Eur" -> "Euro(s) [EUR]"
      [] c = "Cad" -> "Canadian Dollar(s) [CAD]"
      [] c = "Rub" -> "Ruble(s) [RUB]"
      [] c = "Jpy" -> "Yen [JPY]"
      [] c = "Aud" -> "Austriallian Dollar(s) [AUD]"
      [] c = "Amd" -> "Dram [AMD]"
      [] c = "Gbp" -> "Brittish Pound(s) [GBP]"
      [] c = "Pkr" -> "Pakistani rupee(s) [PKR]"

\* Display for CurrencyError (the #[error(...)] formats)
CurrencyErrorString(e) ==
    CASE e.variant = "Parse" ->
            "NumberParseError: couldn't parse number from '" \o Join(e.input)
                \o "': " \o e.message
      [] e.variant = "Request" ->
            "RequestError: couldn't request data from currency API: " \o e.message
      [] e.variant = "JsonParse" ->
            "JSONParseError: couldn't parse JSON returned by currency API: "
                \o e.message

\* two bodies the currency API may answer with (ExchangeRateResponseData)
ResponseA ==
    [EUR |-> Rat(93, 100), USD |-> Rat(1, 1), CAD |-> Rat(134, 100),
     RUB |-> Rat(715, 10), JPY |-> Rat(1326, 10), AUD |-> Rat(145, 100),
     AMD |-> Rat(3966, 10), GBP |-> Rat(83, 100), PKR |-> Rat(2819, 10)]

ResponseB ==
    [EUR |-> Rat(9, 10), USD |-> Rat(1, 1), CAD |-> Rat(125, 100),
     RUB |-> Rat(80, 1), JPY |-> Rat(150, 1), AUD |-> Rat(15, 10),
     AMD |-> Rat(400, 1), GBP |-> Rat(8, 10), PKR |-> Rat(250, 1)]

\* what ExchangeRatesResponse::fetch can return: a decoded body, a transport
\* error (CurrencyError::Request) or an undecodable body (JsonParse)
FetchOutcomes ==
    {[ok |-> TRUE, data |-> ResponseA],
     [ok |-> TRUE, data |-> ResponseB],
     [ok |-> FALSE,
      error |-> [variant |-> "Request", message |-> "error sending request"]],
     [ok |-> FALSE,
      error |-> [variant |-> "JsonParse", message |-> "Invalid JSON content"]]}

\* ExchangeRates::fetch at instant t, the API answering with `outcome`
ExchangeRates_fetch(t, outcome) ==
    IF ~outcome.ok THEN [ok |-> FALSE, error |-> outcome.error]
    ELSE [ok |-> TRUE,
          rates |-> [when |-> t,
                     eur |-> outcome.data.EUR, usd |-> outcome.data.USD,
                     cad |-> outcome.data.CAD, rub |-> outcome.data.RUB,
                     jpy |-> outcome.data.JPY, aud |-> outcome.data.AUD,
                     amd |-> outcome.data.AMD, gbp |-> outcome.data.GBP,
                     pkr |-> outcome.data.PKR]]

\* CurrencyConverter::new
CurrencyConverter_new(api_key, max_age, t, outcome) ==
    LET f == ExchangeRates_fetch(t, outcome)
    IN IF ~f.ok THEN [ok |-> FALSE, error |-> f.error]
       ELSE [ok |-> TRUE,
             converter |-> [exchange_rates |-> f.rates, api_key |-> api_key,
                            max_age |-> max_age]]

\* DateTime::time(): the time of day of an instant
time_of_day(t) == t % DayLen

\* Mutation of refresh_diff: the age of the snapshot, `now - when` on the
\* full instants
refresh_diff_elapsed(conv, t) == t - conv.exchange_rates.when

\* `let diff = when - now;` of refresh_exchange_rates, both times of day
refresh_diff(conv, t) == time_of_day(conv.exchange_rates.when) - time_of_day(t)

\* Mutation of refresh_needed: `diff >= max_age`
refresh_needed_ge(conv, t) == refresh_diff(conv, t) >= conv.max_age

\* the test `diff > max_age` of refresh_exchange_rates
refresh_needed(conv, t) == refresh_diff(conv, t) > conv.max_age

\* Mutation of refresh_fetched: a failed fetch is swallowed and the old
\* converter is used
refresh_fetched_swallow(conv, f) ==
    IF ~f.ok THEN [ok |-> TRUE, fetches |-> 1, converter |-> conv]
    ELSE [ok |-> TRUE, fetches |-> 1,
          converter |-> [conv EXCEPT !.exchange_rates = f.rates]]

\* Mutation of refresh_fetched: the rates are replaced field by field and
\* the timestamp of the old snapshot is kept
refresh_fetched_mixed(conv, f) ==
    IF ~f.ok THEN [ok |-> FALSE, error |-> f.error, fetches |-> 1]
    ELSE [ok |-> TRUE, fetches |-> 1,
          converter |->
              [conv EXCEPT !.exchange_rates =
                               [f.rates EXCEPT !.when = conv.exchange_rates.when]]]

\* `converter.exchange_rates = ExchangeRates::fetch(key)?;`: f is what the
\* fetch returned
refresh_fetched(conv, f) ==
    IF ~f.ok THEN [ok |-> FALSE, error |-> f.error, fetches |-> 1]
    ELSE [ok |-> TRUE, fetches |-> 1,
          converter |-> [conv EXCEPT !.exchange_rates = f.rates]]

\* Currency::refresh_exchange_rates at instant t; fetches counts the calls of
\* ExchangeRates::fetch it makes
refresh_exchange_rates(conv, t, outcome) ==
    IF refresh_needed(conv, t)
    THEN refresh_fetched(conv, ExchangeRates_fetch(t, outcome))
    ELSE [ok |-> TRUE, fetches |-> 0, converter |-> conv]

-----------------------------------------------------------------------------
(* Currency::from_str, Display for Currency, run *)

\* the unit-recognition `match s { ... }` of Currency::from_str on the
\* lowercased input: the first arm whose guard holds strips its aliases
match_unit(s) ==
    IF ends_with(s, Lit.usd) \/ ends_with(s, Lit.dollar) \/ starts_with(s, Lit.sym_usd)
    THEN [matched |-> TRUE, currency |-> "Usd",
          s |-> strip_prefix(strip_suffixes(s, <<Lit.usd, Lit.dollar>>), Lit.sym_usd)]
    ELSE IF \/ ends_with(s, Lit.quid) \/ ends_with(s, Lit.pound)
            \/ ends_with(s, Lit.pounds) \/ ends_with(s, Lit.sterling)
            \/ ends_with(s, Lit.gbp) \/ starts_with(s, Lit.sym_gbp)
    THEN [matched |-> TRUE, currency |-> "Gbp",
          s |-> strip_prefix(
                    strip_suffixes(s, <<Lit.quid, Lit.pound, Lit.pounds,
                                        Lit.sterling, Lit.gbp>>),
                    Lit.sym_gbp)]
    ELSE IF ends_with(s, Lit.eur) \/ ends_with(s, Lit.euro) \/ starts_with(s, Lit.sym_eur)
    THEN [matched |-> TRUE, currency |-> "Eur",
          s |-> strip_prefix(strip_suffixes(s, <<Lit.eur, Lit.eruo>>), Lit.sym_eur)]
    ELSE IF ends_with(s, Lit.rub) \/ ends_with(s, Lit.ruble)
    THEN [matched |-> TRUE, currency |-> "Rub",
          s |-> strip_suffixes(s, <<Lit.ruble, Lit.rub>>)]
    ELSE IF ends_with(s, Lit.amd) \/ ends_with(s, Lit.dram)
    THEN [matched |-> TRUE, currency |-> "Amd",
          s |-> strip_suffixes(s, <<Lit.amd, Lit.dram>>)]
    ELSE IF ends_with(s, Lit.cad)
    THEN [matched |-> TRUE, currency |-> "Cad", s |-> strip_suffixes(s, <<Lit.cad>>)]
    ELSE IF ends_with(s, Lit.aud)
    THEN [matched |-> TRUE, currency |-> "Aud", s |-> strip_suffixes(s, <<Lit.aud>>)]
    ELSE IF ends_with(s, Lit.yen) \/ ends_with(s, Lit.jpy) \/ starts_with(s, Lit.sym_jpy)
    THEN [matched |-> TRUE, currency |-> "Jpy",
          s |-> strip_prefix(strip_suffixes(s, <<Lit.yen, Lit.jpy>>), Lit.sym_jpy)]
    ELSE IF ends_with(s, Lit.pkr) \/ ends_with(s, Lit.pakistani_rupee)
    THEN [matched |-> TRUE, currency |-> "Pkr",
          s |-> strip_suffixes(s, <<Lit.pkr, Lit.pakistani_rupee>>)]
    ELSE [matched |-> FALSE, s |-> s]

\* the error of the last arm of the match: no unit recognized
invalid_unit_error(s) ==
    [variant |-> "Parse", input |-> s, message |-> "Invalid unit provided."]

\* `value = match s.trim().parse() { ... }`: p is the parse of the stripped
\* text u.s; the error echoes the stripped, untrimmed text
parse_value(u, p) ==
    IF ~p.ok
    THEN [ok |-> FALSE,
          error |-> [variant |-> "Parse", input |-> u.s, message |-> p.message]]
    ELSE [ok |-> TRUE, currency |-> u.currency, value |-> p.value]

\* Mutation of parse_unit: the number is parsed before the unit is checked
parse_unit_number_first(s, u) ==
    IF ~parse_f64(trim(u.s)).ok THEN parse_value(u, parse_f64(trim(u.s)))
    ELSE IF ~u.matched THEN [ok |-> FALSE, error |-> invalid_unit_error(s)]
    ELSE parse_value(u, parse_f64(trim(u.s)))

\* the outcome u of the unit match on the lowercased text s, then the number
parse_unit(s, u) ==
    IF ~u.matched THEN [ok |-> FALSE, error |-> invalid_unit_error(s)]
    ELSE parse_value(u, parse_f64(trim(u.s)))

\* Currency::from_str after `s.to_lowercase()`, up to the parsed number
parse_lowered(s) == parse_unit(s, match_unit(s))

\* Mutation of parse_amount: the input is not lowercased
parse_amount_cased(input) == parse_lowered(input)

\* the part of Currency::from_str before the refresh: lowercase, recognize and
\* strip the unit, trim, parse the number.  value is the raw magnitude.
parse_amount(input) == parse_lowered(to_lowercase(input))

\* `match currency { ... }` of Currency::from_str: the rate of a unit
from_str_rate(exchange_rates, currency) ==
    CASE currency = "Usd" -> exchange_rates.usd
      [] currency = "Eur" -> exchange_rates.eur
      [] currency = "Cad" -> exchange_rates.cad
      [] currency = "Rub" -> exchange_rates.rub
      [] currency = "Jpy" -> exchange_rates.jpy
      [] currency = "Aud" -> exchange_rates.aud
      [] currency = "Amd" -> exchange_rates.amd
      [] currency = "Gbp" -> exchange_rates.gbp
      [] currency = "Pkr" -> exchange_rates.pkr

\* Mutation of normalize: `rate / value`
normalize_inverted(value, rate) == RatDiv(rate, value)

\* `value /= rate`: the amount stored in USD
normalize(value, rate) == RatDiv(value, rate)

\* Currency::from_str from `let converter = Self::refresh_exchange_rates(
\* converter)?;` on: a is the parsed amount, r what the refresh returned
from_str_refreshed(a, r) ==
    IF ~r.ok
    THEN [ok |-> FALSE, error |-> r.error, parsed |-> TRUE, fetches |-> r.fetches]
    ELSE [ok |-> TRUE, parsed |-> TRUE, fetches |-> r.fetches,
          currency |->
              [converter |-> r.converter,
               currency |-> a.currency,
               value |-> normalize(a.value,
                                   from_str_rate(r.converter.exchange_rates,
                                                 a.currency))]]

\* Mutation of from_str_parsed: the refresh is made before the parsing
\* step's error is returned
from_str_parsed_refresh_first(a, conv, t, outcome) ==
    IF ~a.ok
    THEN [ok |-> FALSE, error |-> a.error, parsed |-> FALSE,
          fetches |-> refresh_exchange_rates(conv, t, outcome).fetches]
    ELSE from_str_refreshed(a, refresh_exchange_rates(conv, t, outcome))

\* Currency::from_str once the parsing step has produced a: its error returns
\* at once, otherwise the refresh follows
from_str_parsed(a, conv, t, outcome) ==
    IF ~a.ok
    THEN [ok |-> FALSE, error |-> a.error, parsed |-> FALSE, fetches |-> 0]
    ELSE from_str_refreshed(a, refresh_exchange_rates(conv, t, outcome))

\* Currency::from_str at instant t.  parsed: the number was parsed, so
\* refresh_exchange_rates was reached; fetches: calls of the rate source.
from_str(input, conv, t, outcome) ==
    from_str_parsed(parse_amount(input), conv, t, outcome)

\* `match self.currency { ... }` of Display for Currency
display_rate(exchange_rates, currency) ==
    CASE currency = "Usd" -> exchange_rates.usd
      [] currency = "Eur" -> exchange_rates.eur
      [] currency = "Cad" -> exchange_rates.cad
      [] currency = "Rub" -> exchange_rates.rub
      [] currency = "Jpy" -> exchange_rates.jpy
      [] currency = "Aud" -> exchange_rates.aud
      [] currency = "Amd" -> exchange_rates.amd
      [] currency = "Gbp" -> exchange_rates.gbp
      [] currency = "Pkr" -> exchange_rates.pkr

\* Display for Currency: "{value:.2} {currency}", value = rate * self.value
CurrencyString(c) ==
    Fmt2(RatMul(display_rate(c.converter.exchange_rates, c.currency), c.value))
        \o " " \o CurrencyTypeString(c.currency)

\* Mutation of into_currency: the stored value is converted to the new unit
into_currency_converting(c, currency) ==
    [c EXCEPT !.currency = currency,
              !.value = RatMul(display_rate(c.converter.exchange_rates, currency),
                               c.value)]

\* Currency::into_currency
into_currency(c, currency) == [c EXCEPT !.currency = currency]

\* Currency::get_converter
get_converter(c) == c.converter

\* the target `match &*target.trim().to_lowercase() { ... }` of run
match_target(target) ==
    LET t == to_lowercase(trim(target))
    IN CASE t \in {Lit.sym_usd, Lit.usd, Lit.dollar} ->
                [ok |-> TRUE, currency |-> "Usd"]
         [] t \in {Lit.sym_eur, Lit.eur, Lit.euro} ->
                [ok |-> TRUE, currency |-> "Eur"]
         [] t = Lit.cad -> [ok |-> TRUE, currency |-> "Cad"]
         [] t \in {Lit.rub, Lit.ruble} -> [ok |-> TRUE, currency |-> "Rub"]
         [] t \in {Lit.sym_jpy, Lit.yen, Lit.jpy} ->
                [ok |-> TRUE, currency |-> "Jpy"]
         [] t = Lit.aud -> [ok |-> TRUE, currency |-> "Aud"]
         [] t \in {Lit.amd, Lit.dram} -> [ok |-> TRUE, currency |-> "Amd"]
         [] t \in {Lit.pound, Lit.sterling, Lit.quid} ->
                [ok |-> TRUE, currency |-> "Gbp"]
         [] t \in {Lit.pakistani_rupee, Lit.pkr} ->
                [ok |-> TRUE, currency |-> "Pkr"]
         [] OTHER -> [ok |-> FALSE]

\* Mutation of run_from_str_failed: the converter handed back has its
\* snapshot's timestamp reset
run_from_str_failed_reset(conv, error) ==
    [returned |-> TRUE, text |-> CurrencyErrorString(error),
     converter |-> [conv EXCEPT !.exchange_rates.when = 0]]

\* Mutation of run_from_str_failed: `Currency::from_str(..).unwrap()`, which
\* aborts instead of returning
run_from_str_failed_unwrap(conv, error) ==
    [returned |-> FALSE, text |-> "", converter |-> conv]

\* what run returns when Currency::from_str fails: the error's text and the
\* converter it was passed
run_from_str_failed(conv, error) ==
    [returned |-> TRUE, text |-> CurrencyErrorString(error), converter |-> conv]

\* Mutation of run_invalid_target: the target error reuses the Parse error
run_invalid_target_parse(conv, value) ==
    [returned |-> TRUE,
     text |-> CurrencyErrorString(invalid_unit_error(<<>>)),
     converter |-> conv]

\* Mutation of run_invalid_target: the converter of the parsed value, which
\* holds the refreshed snapshot, is handed back
run_invalid_target_refreshed(conv, value) ==
    [returned |-> TRUE, text |-> "Error: Invalid target currency",
     converter |-> get_converter(value)]

\* what run returns when the target is not recognized
run_invalid_target(conv, value) ==
    [returned |-> TRUE, text |-> "Error: Invalid target currency",
     converter |-> conv]

\* what run returns for a recognized target
run_converted(initial_value, value) ==
    [returned |-> TRUE,
     text |-> initial_value \o " -> " \o CurrencyString(value),
     converter |-> get_converter(value)]

\* the three ways out of run: f is what Currency::from_str returned, tg the
\* outcome of the target match
run_return(conv, f, tg) ==
    IF ~f.ok THEN run_from_str_failed(conv, f.error)
    ELSE IF ~tg.ok THEN run_invalid_target(conv, f.currency)
    ELSE run_converted(CurrencyString(f.currency),
                       into_currency(f.currency, tg.currency))

\* what run returned (res), with the observations of the call: converted: it
\* reached the final format!; parsed: refresh_exchange_rates was reached;
\* fetches: calls of the rate source
run_observed(f, tg, res) ==
    [returned |-> res.returned, text |-> res.text, converter |-> res.converter,
     converted |-> f.ok /\ tg.ok, parsed |-> f.parsed, fetches |-> f.fetches]

run_steps(conv, f, tg) == run_observed(f, tg, run_return(conv, f, tg))

\* run(converter, input, target) at instant t, the rate source answering with
\* `outcome` if it is called
run(conv, input, target, t, outcome) ==
    run_steps(conv, from_str(input, conv, t, outcome), match_target(target))

-----------------------------------------------------------------------------
(* The state machine: a caller that holds a converter, calls run with it and
   keeps the converter run returns, while the wall clock advances. *)

\* inputs and targets of the calls of Spec
RunInputs ==
    {<<"4", "0", " ", "U", "S", "D">>,
     <<"4", "0", " ", "z", "z", "z">>,
     <<"x", " ", "u", "s", "d">>}

RunTargets == {<<"c", "a", "d">>, <<"z", "z", "z">>}

\* converters as CurrencyConverter::new builds them at instant t
NewConverters(t) ==
    {CurrencyConverter_new("NONE", age, t, o).converter :
        age \in 0..MaxAge, o \in {x \in FetchOutcomes : x.ok}}

Init ==
    /\ now \in 0..(DayLen - 1)
    /\ converter \in NewConverters(now)
    /\ last = [op |-> "none"]

\* the wall clock advances by one tick
Tick ==
    /\ now < MaxTime
    /\ now' = now + 1
    /\ UNCHANGED <<converter, last>>

\* one call of run, which returned r; the caller keeps the converter it
\* returns.  `last` records the call: its arguments, the instant, what the
\* parsing step produced, what run returned, how often the rate source was
\* called and what it answered (fetch), and the counts of the call before it
\* (immediate: that call was made at this same instant).
Returned(input, target, outcome, r) ==
    /\ converter' = r.converter
    /\ last' = [op |-> "run", input |-> input, target |-> target,
                at |-> now, before |-> converter,
                amount |-> parse_amount(input),
                returned |-> r.returned, text |-> r.text,
                converted |-> r.converted, parsed |-> r.parsed,
                fetches |-> r.fetches,
                fetch |-> IF r.fetches = 0 THEN "none"
                          ELSE IF outcome.ok THEN "ok" ELSE "failed",
                immediate |-> last.op = "run" /\ last.at = now,
                prev |-> IF last.op = "run"
                         THEN [fetches |-> last.fetches,
                               converted |-> last.converted]
                         ELSE [fetches |-> 0, converted |-> FALSE]]
    /\ UNCHANGED now

Run(input, target, outcome) ==
    Returned(input, target, outcome,
             run(converter, input, target, now, outcome))

Call == \E i \in RunInputs, t \in RunTargets, o \in FetchOutcomes : Run(i, t, o)

Next == Tick \/ Call

Spec == Init /\ [][Next]_vars

-----------------------------------------------------------------------------
(* Properties of the refresh policy and of run's error handling (Spec) *)

\* the last step was a call of run that reached refresh_exchange_rates
Refreshing == last.op = "run" /\ last.parsed

\* the age of the snapshot run was passed, at the instant of the call
Elapsed == last.at - last.before.exchange_rates.when

\* the texts run renders a failed fetch as
FetchErrorTexts == {CurrencyErrorString(o.error) : o \in {x \in FetchOutcomes : ~x.ok}}

\* C1: every time from_str reaches refresh_exchange_rates, the rate source is
\* called exactly once if now - fetched_at > max_age and not at all if
\* now - fetched_at <= max_age.  (Stated as the claim has it; the code decides
\* on when.time() - now.time() instead.)
C1_StalenessPolicy ==
    Refreshing =>
        last.fetches = (IF Elapsed > last.before.max_age THEN 1 ELSE 0)

\* C2: when the rate source fails during a call of run, the converter run
\* returns holds exactly the snapshot (rates and fetched_at) it was passed.
C2_FailedRefreshKeepsSnapshot ==
    (last.op = "run" /\ last.fetch = "failed") =>
        /\ converter.exchange_rates = last.before.exchange_rates
        /\ converter = last.before

\* a call of run whose refresh called the rate source, which failed
C2_Witness == last.op = "run" /\ last.fetches = 1 /\ last.fetch = "failed"

C4_AtMostOneFetchInTwoRuns ==
    (last.op = "run" /\ last.immediate) =>
        last.prev.fetches + last.fetches <= 1

\* C4 as amended: they make at most one fetch together unless the first call
\* fetched and returned an error text (failed fetch, or invalid target: the
\* converter it returns is then the one it was passed); in that case the
\* second call fetches again as soon as its input parses.
C4_NoRefetchAfterConversion ==
    (last.op = "run" /\ last.immediate) =>
        IF last.prev.fetches = 1 /\ ~last.prev.converted
        THEN last.parsed => last.fetches = 1
        ELSE last.prev.fetches + last.fetches <= 1

\* a call that fetched and converted, followed at once by a call that parsed
C4_Witness ==
    /\ last.op = "run" /\ last.immediate /\ last.parsed
    /\ last.prev.fetches = 1 /\ last.prev.converted

\* C5: the duration refresh_exchange_rates compares with max_age is
\* now - fetched_at, and it is never negative.
C5_ElapsedDirection ==
    Refreshing =>
        /\ refresh_diff(last.before, last.at) = Elapsed
        /\ refresh_diff(last.before, last.at) >= 0

\* C6: run always returns to its caller a text and a converter, whatever the
\* input, the target and the rate source do: a parse error, a fetch error and
\* an invalid target are each rendered as text.
C6_RunNeverFails ==
    last.op = "run" =>
        /\ last.returned
        /\ last.text \in STRING /\ last.text # ""
        /\ converter.exchange_rates.when \in 0..MaxTime
        /\ ~last.amount.ok => last.text = CurrencyErrorString(last.amount.error)
        /\ last.fetch = "failed" => last.text \in FetchErrorTexts
        /\ (last.parsed /\ last.fetch # "failed" /\ ~last.converted) =>
               last.text = "Error: Invalid target currency"

\* a call of run whose input does not parse
C6_Witness == last.op = "run" /\ ~last.amount.ok /\ last.returned

-----------------------------------------------------------------------------
(* Single calls of run on a table of inputs and targets (SpecParse) *)

UpperChar(c) ==
    IF \E i \in DOMAIN LowerCase : LowerCase[i] = c
    THEN UpperCase[CHOOSE i \in DOMAIN LowerCase : LowerCase[i] = c]
    ELSE c

Upper(s) == [i \in 1..Len(s) |-> UpperChar(s[i])]

Capital(s) == [i \in 1..Len(s) |-> IF i = 1 THEN UpperChar(s[i]) ELSE s[i]]

CaseVariants(s) == {s, Upper(s), Capital(s)}

\* the word aliases and codes of each unit, and its symbol
WordAliases ==
    [u \in CurrencyType |->
        CASE u = "Usd" -> {Lit.usd, Lit.dollar}
          [] u = "Gbp" -> {Lit.quid, Lit.pound, Lit.pounds, Lit.sterling, Lit.gbp}
          [] u = "Eur" -> {Lit.eur, Lit.euro}
          [] u = "Rub" -> {Lit.rub, Lit.ruble}
          [] u = "Amd" -> {Lit.amd, Lit.dram}
          [] u = "Cad" -> {Lit.cad}
          [] u = "Aud" -> {Lit.aud}
          [] u = "Jpy" -> {Lit.yen, Lit.jpy}
          [] u = "Pkr" -> {Lit.pkr, Lit.pakistani_rupee}]

SymbolAliases ==
    [u \in CurrencyType |->
        CASE u = "Usd" -> {Lit.sym_usd}
          [] u = "Gbp" -> {Lit.sym_gbp}
          [] u = "Eur" -> {Lit.sym_eur}
          [] u = "Jpy" -> {Lit.sym_jpy}
          [] OTHER -> {}]

AllWords == UNION {WordAliases[u] : u \in CurrencyType}

AllSymbols == UNION {SymbolAliases[u] : u \in CurrencyType}

\* words that are no alias of any unit
UnknownWords ==
    {<<"z", "z", "z">>,
     <<"d", "o", "l", "l", "a", "r", "s">>,
     <<"r", "u", "b", "l", "e", "s">>}

\* magnitudes, as written and as numbers
Magnitudes ==
    {[text |-> <<"4", "0">>, value |-> Rat(40, 1)],
     [text |-> <<"4", "5", ".", "9">>, value |-> Rat(459, 10)],
     [text |-> <<"-", "5">>, value |-> Rat(-5, 1)]}

\* "<m> <word>" in three letter cases, and "<symbol><m>", each with the
\* magnitude and the unit it is written to mean
WordSamples ==
    UNION {UNION {{[text |-> m.text \o <<" ">> \o v, value |-> m.value, unit |-> u] :
                      m \in Magnitudes, v \in CaseVariants(w)} :
                  w \in WordAliases[u]} :
           u \in CurrencyType}

SymbolSamples ==
    UNION {{[text |-> s \o m.text, value |-> m.value, unit |-> u] :
               m \in Magnitudes, s \in SymbolAliases[u]} :
           u \in CurrencyType}

Samples == WordSamples \cup SymbolSamples

\* inputs with no recognizable unit, or with no parsable number
BadInputs ==
    {m.text \o <<" ">> \o v : m \in Magnitudes,
                             v \in UNION {CaseVariants(w) : w \in UnknownWords}}
    \cup {m.text : m \in Magnitudes}
    \cup {<<>>, <<"x", " ", "z", "z", "z">>, <<"x", " ", "u", "s", "d">>,
          <<"u", "s", "d">>, <<"$">>, <<"4", " ", "0", " ", "c", "a", "d">>,
          <<"$", "4", "0", " ", "c", "a", "d">>}

ParseInputs == {smp.text : smp \in Samples} \cup BadInputs

ParseTargets ==
    AllWords \cup AllSymbols \cup UnknownWords
    \cup {Upper(w) : w \in AllWords}
    \cup {<<" ">> \o Lit.usd \o <<" ">>, <<>>}

\* the clock and the snapshot of a single call: a snapshot taken at this
\* instant, and one taken at the last tick of the day before
ParseScenes ==
    {[now |-> 0, when |-> 0, max_age |-> MaxAge],
     [now |-> DayLen, when |-> DayLen - 1, max_age |-> 0]}

InitParse ==
    \E sc \in ParseScenes, i \in ParseInputs, tg \in ParseTargets :
        /\ now = sc.now
        /\ converter = CurrencyConverter_new("NONE", sc.max_age, sc.when,
                           [ok |-> TRUE, data |-> ResponseA]).converter
        /\ last = [op |-> "call", input |-> i, target |-> tg]

\* the pending call is made
Pending ==
    /\ last.op = "call"
    /\ \E o \in FetchOutcomes : Run(last.input, last.target, o)

NextParse == Pending

SpecParse == InitParse /\ [][NextParse]_vars

\* the unit a target token names, by the alias table
AliasUnit(target) ==
    CHOOSE u \in CurrencyType :
        to_lowercase(trim(target)) \in WordAliases[u] \cup SymbolAliases[u]

\* the rate of a unit in a snapshot
RateOf(rates, u) ==
    CASE u = "Usd" -> rates.usd [] u = "Eur" -> rates.eur [] u = "Cad" -> rates.cad
      [] u = "Rub" -> rates.rub [] u = "Jpy" -> rates.jpy [] u = "Aud" -> rates.aud
      [] u = "Amd" -> rates.amd [] u = "Gbp" -> rates.gbp [] u = "Pkr" -> rates.pkr

\* "<m to 2 decimals> <label of s> -> <(m / rate[s]) * rate[t] to 2 decimals>
\* <label of t>"
Rendering(m, s, t, rates) ==
    Fmt2(m) \o " " \o CurrencyTypeString(s) \o " -> "
        \o Fmt2(RatMul(RatDiv(m, RateOf(rates, s)), RateOf(rates, t)))
        \o " " \o CurrencyTypeString(t)

\* C7: for an input of magnitude m in unit s that parses and a target unit t
\* that run recognizes, the refresh not failing, run renders
\* "<m> <label of s> -> <(m / rate[s]) * rate[t]> <label of t>" with two
\* decimals, the rates being those of the snapshot it returns; so converting
\* to the input's own unit renders the same amount on both sides.
C7_ConversionRendering ==
    \A smp \in Samples :
        (/\ last.op = "run" /\ last.input = smp.text
         /\ last.amount.ok /\ match_target(last.target).ok
         /\ last.fetch # "failed") =>
            /\ last.converted
            /\ last.text = Rendering(smp.value, smp.unit, AliasUnit(last.target),
                                     converter.exchange_rates)
            /\ AliasUnit(last.target) = smp.unit =>
                   last.text = Fmt2(smp.value) \o " " \o CurrencyTypeString(smp.unit)
                                  \o " -> " \o Fmt2(smp.value) \o " "
                                  \o CurrencyTypeString(smp.unit)

\* a conversion between two different units after a successful refresh
C7_Witness ==
    /\ last.op = "run" /\ last.converted /\ last.fetch = "ok"
    /\ last.input = <<"4", "5", ".", "9", " ">> \o Lit.aud
    /\ last.target = Lit.dram

\* C8: "$m", "m usd", "m dollar" and their upper-case and capitalized variants
\* all parse to (m, Usd); and no input parses differently from its lowercase
\* form.
C8_AliasRobustness ==
    last.op = "run" =>
        /\ \A smp \in Samples :
               (smp.unit = "Usd" /\ last.input = smp.text) =>
                   last.amount = [ok |-> TRUE, currency |-> "Usd",
                                  value |-> smp.value]
        /\ last.amount = parse_amount(to_lowercase(last.input))

\* "45.9 DOLLAR" was parsed
C8_Witness ==
    /\ last.op = "run" /\ last.amount.ok
    /\ last.input = <<"4", "5", ".", "9", " ">> \o Upper(Lit.dollar)

\* the lowercased text carries no alias: it ends with no word alias or code
\* and starts with no currency symbol
NoAlias(s) ==
    /\ \A w \in AllWords : ~ends_with(s, w)
    /\ \A y \in AllSymbols : ~starts_with(s, y)

\* C9: an input that carries no alias fails with the Parse error "Invalid
\* unit provided." on the lowercased input, whether or not the rest is a
\* number, and run renders that error.
C9_InvalidUnit ==
    (last.op = "run" /\ NoAlias(to_lowercase(last.input))) =>
        /\ last.amount =
               [ok |-> FALSE,
                error |-> [variant |-> "Parse", input |-> to_lowercase(last.input),
                           message |-> "Invalid unit provided."]]
        /\ ~last.parsed /\ last.fetches = 0
        /\ last.text = "NumberParseError: couldn't parse number from '"
                           \o Join(to_lowercase(last.input))
                           \o "': Invalid unit provided."

\* "45.9 zzz" and "x zzz" were rejected
C9_Witness ==
    /\ last.op = "run" /\ ~last.amount.ok
    /\ last.input \in {<<"4", "5", ".", "9", " ", "z", "z", "z">>,
                       <<"x", " ", "z", "z", "z">>}

\* the target token is no alias of any unit
UnknownTarget ==
    to_lowercase(trim(last.target)) \notin AllWords \cup AllSymbols

DocumentedCodes ==
    {[token |-> Lit.usd, unit |-> "Usd"], [token |-> Lit.eur, unit |-> "Eur"],
     [token |-> Lit.cad, unit |-> "Cad"], [token |-> Lit.rub, unit |-> "Rub"],
     [token |-> Lit.jpy, unit |-> "Jpy"], [token |-> Lit.aud, unit |-> "Aud"],
     [token |-> Lit.amd, unit |-> "Amd"], [token |-> Lit.gbp, unit |-> "Gbp"]}

DocumentedExamples ==
    {[token |-> <<"r", "u", "b", "l", "e", "s">>, unit |-> "Rub"],
     [token |-> Lit.usd, unit |-> "Usd"],
     [token |-> Lit.yen, unit |-> "Jpy"]}

DocumentedTargets == DocumentedCodes \cup DocumentedExamples

\* C11: every target the help documents is accepted by run: for an input that
\* parses and a refresh that does not fail, each supported code (USD, EUR,
\* CAD, RUB, JPY, AUD, AMD, GBP) in any letter case and each example target
\* ('rubles', 'usd', 'yen') resolves to its unit and is converted, never
\* answered with the invalid-target error.
C11_DocumentedTargetsAccepted ==
    \A d \in DocumentedTargets :
        (/\ last.op = "run" /\ to_lowercase(last.target) = d.token
         /\ last.amount.ok /\ last.fetch # "failed") =>
            /\ match_target(last.target) = [ok |-> TRUE, currency |-> d.unit]
            /\ last.converted
            /\ last.text # "Error: Invalid target currency"

\* C12: target resolution uses the alias table of the parser: every alias or
\* symbol that Currency::from_str recognizes for a unit resolves, as a bare
\* target token in any letter case, to that unit, and every token that
\* resolves as a target is recognized by the parser for the same unit.
C12_SameAliasTable ==
    last.op = "run" =>
        /\ \A u \in CurrencyType :
               to_lowercase(trim(last.target)) \in WordAliases[u] \cup SymbolAliases[u]
                   => match_target(last.target) = [ok |-> TRUE, currency |-> u]
        /\ match_target(last.target).ok =>
               /\ match_unit(to_lowercase(trim(last.target))).matched
               /\ match_unit(to_lowercase(trim(last.target))).currency
                      = match_target(last.target).currency

\* C17: every alias, code and symbol of a unit is fully stripped: an input
\* made of a number and the alias (symbol before, word after) parses to that
\* number and that unit, never to another unit's.
C17_AliasFullyStripped ==
    \A smp \in Samples :
        (last.op = "run" /\ last.input = smp.text) =>
            last.amount = [ok |-> TRUE, currency |-> smp.unit, value |-> smp.value]

-----------------------------------------------------------------------------
(* What run leaves alone (Spec) *)

\* the last step was a call of run whose input parsed and whose target is not
\* recognized
InvalidTargetCall ==
    last.op = "run" /\ last.amount.ok /\ ~match_target(last.target).ok

\* C19: when the input is valid but the target is invalid, run returns the
\* converter exactly as it was passed in, also when that call's parsing step
\* refreshed the snapshot; the next call of run is then passed the same
\* snapshot, stale as it was, and fetches again if it is made at the same
\* instant and its input parses.
C19_InvalidTargetKeepsConverter ==
    [][/\ (last'.op = "run" /\ last'.amount.ok /\ ~match_target(last'.target).ok)
              => converter' = last'.before
       /\ (InvalidTargetCall /\ last.fetch = "ok" /\ last' # last) =>
              /\ last'.before = last.before
              /\ refresh_needed(last'.before, last.at)
              /\ (last'.at = last.at /\ last'.parsed) => last'.fetches = 1]_vars

\* a call with a valid input and an invalid target whose refresh fetched a
\* new snapshot: the converter returned still holds the stale one
C19_Witness ==
    /\ InvalidTargetCall /\ last.fetches = 1 /\ last.fetch = "ok"
    /\ converter = last.before
    /\ refresh_needed(converter, last.at)

\* C20: the rate source is never called for an input that fails to parse: for
\* an invalid unit and for an unparsable number alike no fetch is made, even
\* when the snapshot is stale, and run returns the converter unchanged.
C20_NoFetchOnParseError ==
    (last.op = "run" /\ ~last.amount.ok) =>
        /\ ~last.parsed
        /\ last.fetches = 0 /\ last.fetch = "none"
        /\ converter = last.before

\* "x usd" was rejected in a call made with a stale snapshot
C20_Witness ==
    /\ last.op = "run" /\ ~last.amount.ok
    /\ last.input = <<"x", " ", "u", "s", "d">>
    /\ refresh_needed(last.before, last.at)

-----------------------------------------------------------------------------
(* Re-tagging a parsed Currency value (SpecRetag): a value parsed by
   Currency::from_str is re-tagged by into_currency any number of times. *)

\* the Currency values of SpecRetag: every sample that from_str parses, with a
\* snapshot taken at this instant from either answer of the rate source
RetagConverters ==
    {CurrencyConverter_new("NONE", MaxAge, 0, o).converter :
        o \in {x \in FetchOutcomes : x.ok}}

InitRetag ==
    \E conv \in RetagConverters, smp \in Samples :
        /\ parse_amount(smp.text).ok
        /\ now = 0
        /\ converter = conv
        /\ last = [op |-> "from_str", sample |-> smp,
                   original |-> from_str(smp.text, conv, 0,
                                         [ok |-> TRUE, data |-> ResponseA]).currency,
                   value |-> from_str(smp.text, conv, 0,
                                      [ok |-> TRUE, data |-> ResponseA]).currency,
                   tag |-> parse_amount(smp.text).currency,
                   away |-> FALSE]

\* value.into_currency(u); away: the value has been tagged with a unit other
\* than the one it was parsed in
IntoCurrency(u) ==
    /\ last.op \in {"from_str", "into_currency"}
    /\ last' = [last EXCEPT !.op = "into_currency",
                            !.value = into_currency(last.value, u),
                            !.tag = u,
                            !.away = last.away \/ u # last.original.currency]
    /\ UNCHANGED <<now, converter>>

NextRetag == \E u \in CurrencyType : IntoCurrency(u)

SpecRetag == InitRetag /\ [][NextRetag]_vars

\* C18: re-tagging is display-only: after any sequence of into_currency calls
\* the value carries the unit last asked for, and its stored USD amount and
\* its converter (snapshot, api_key, max_age) are those it was parsed with; so
\* once it is tagged with its original unit again it renders as it did at
\* first, which is the amount that was written.
C18_RetagDisplayOnly ==
    last.op = "into_currency" =>
        /\ DOMAIN last.value = DOMAIN last.original
        /\ last.value.currency = last.tag
        /\ last.value.value = last.original.value
        /\ last.value.converter = last.original.converter
        /\ last.value.converter = converter
        /\ last.value.currency = last.original.currency =>
               /\ last.value = last.original
               /\ CurrencyString(last.value) = CurrencyString(last.original)
               /\ CurrencyString(last.value) =
                      Fmt2(last.sample.value) \o " "
                          \o CurrencyTypeString(last.sample.unit)

\* "45.9 aud", re-tagged to other units and then to Aud again
C18_Witness ==
    /\ last.op = "into_currency" /\ last.away
    /\ last.sample.text = <<"4", "5", ".", "9", " ">> \o Lit.aud
    /\ last.value.currency = "Aud"
    /\ CurrencyString(last.value) = "45.90 Austriallian Dollar(s) [AUD]"

-----------------------------------------------------------------------------
(* Construction followed by calls (SpecNew): the caller builds its converter
   with CurrencyConverter::new, which may fail, and then calls run with it. *)

\* the caller holds no converter: none was built yet, or new returned Err
NoConverter == [built |-> FALSE]

InitNew ==
    /\ now \in 0..(DayLen - 1)
    /\ converter = NoConverter
    /\ last = [op |-> "none"]

\* CurrencyConverter::new returned r, the rate source having answered o
Constructed(o, r) ==
    /\ converter' = IF r.ok THEN r.converter ELSE NoConverter
    /\ last' = [op |-> "new", at |-> now, outcome |-> o, result |-> r]
    /\ UNCHANGED now

\* CurrencyConverter::new(api_key, max_age), called while no converter is held
New ==
    /\ converter = NoConverter
    /\ \E age \in 0..MaxAge, o \in FetchOutcomes :
           Constructed(o, CurrencyConverter_new("NONE", age, now, o))

\* run is called with the converter that was built
CallBuilt == converter # NoConverter /\ Call

NextNew == Tick \/ New \/ CallBuilt

SpecNew == InitNew /\ [][NextNew]_vars

\* the snapshots a successful fetch at instant t can return whole
FetchedAt(t) ==
    {ExchangeRates_fetch(t, o).rates : o \in {x \in FetchOutcomes : x.ok}}

\* C14: CurrencyConverter::new fails, with the fetch's error, when its fetch
\* fails, and otherwise returns a converter holding the snapshot fetched,
\* with the key and max_age it was given; and after every call of run the
\* converter holds one whole snapshot: the one it held before the call, or
\* the one a successful fetch of that call returned, all fields together.
C14_OneWholeSnapshot ==
    /\ last.op = "new" =>
           /\ last.result.ok = last.outcome.ok
           /\ ~last.outcome.ok =>
                  /\ last.result = [ok |-> FALSE, error |-> last.outcome.error]
                  /\ converter = NoConverter
           /\ last.outcome.ok =>
                  /\ converter = last.result.converter
                  /\ converter.exchange_rates =
                         ExchangeRates_fetch(last.at, last.outcome).rates
                  /\ converter.api_key = "NONE"
                  /\ converter.max_age \in 0..MaxAge
    /\ last.op = "run" =>
           /\ converter # NoConverter
           /\ DOMAIN converter = {"exchange_rates", "api_key", "max_age"}
           /\ converter.api_key = last.before.api_key
           /\ converter.max_age = last.before.max_age
           /\ \/ converter.exchange_rates = last.before.exchange_rates
              \/ /\ last.fetch = "ok"
                 /\ converter.exchange_rates \in FetchedAt(last.at)
           /\ \E t \in 0..MaxTime : converter.exchange_rates \in FetchedAt(t)

\* a call of run that replaced the snapshot of the converter it was passed
C14_Witness ==
    /\ last.op = "run" /\ last.fetch = "ok" /\ last.converted
    /\ converter.exchange_rates # last.before.exchange_rates
    /\ converter.exchange_rates.when = last.at

-----------------------------------------------------------------------------
(* Overlapping calls (SpecConc): run is a plain function that takes its
   converter by value and blocks in reqwest::blocking::get while the rate
   source answers; nothing in it serializes callers.  Each request is a call
   of run made with a clone of the converter the caller holds at that
   moment; the caller keeps the converter a call returns. *)

\* the number of requests that may overlap
MaxRequests == 2

Requests == 1..MaxRequests

InitConc ==
    \E sc \in ParseScenes :
        /\ now = sc.now
        /\ converter = CurrencyConverter_new("NONE", sc.max_age, sc.when,
                           [ok |-> TRUE, data |-> ResponseA]).converter
        /\ last = [op |-> "requests", req |-> [p \in Requests |-> [pc |-> "idle"]]]

\* request p calls run(converter.clone(), input, target) and the call reaches
\* `ExchangeRates::fetch(key)`: the input parsed and the test of
\* refresh_exchange_rates on the clone holds; the request is now waiting for
\* the rate source
EnterFetch(p, input, target) ==
    /\ last.req[p].pc = "idle"
    /\ parse_amount(input).ok
    /\ refresh_needed(converter, now)
    /\ last' = [last EXCEPT !.req[p] =
                    [pc |-> "fetching", input |-> input, target |-> target,
                     conv |-> converter]]
    /\ UNCHANGED <<now, converter>>

\* the call of request p returned r; the caller keeps the converter
Finished(p, r) ==
    /\ converter' = r.converter
    /\ last' = [last EXCEPT !.req[p] =
                    [pc |-> "done", text |-> r.text, fetches |-> r.fetches]]
    /\ UNCHANGED now

\* request p calls run(converter.clone(), input, target) and the call returns
\* without reaching the rate source: the input does not parse, or the test
\* of refresh_exchange_rates fails
EnterReturn(p, input, target) ==
    /\ last.req[p].pc = "idle"
    /\ ~(parse_amount(input).ok /\ refresh_needed(converter, now))
    /\ Finished(p, run(converter, input, target, now,
                       [ok |-> TRUE, data |-> ResponseA]))

\* the rate source answers request p, whose call of run then runs to its end
Answer(p, outcome) ==
    /\ last.req[p].pc = "fetching"
    /\ Finished(p, run(last.req[p].conv, last.req[p].input, last.req[p].target,
                       now, outcome))

NextConc ==
    \E p \in Requests :
        \/ \E i \in RunInputs, t \in RunTargets : EnterFetch(p, i, t)
        \/ \E i \in RunInputs, t \in RunTargets : EnterReturn(p, i, t)
        \/ \E o \in FetchOutcomes : Answer(p, o)

SpecConc == InitConc /\ [][NextConc]_vars

\* the requests whose fetch is in flight
InFlight == {p \in Requests : last.req[p].pc = "fetching"}

\* C13: when several conversion requests run concurrently against the same
\* stale converter, at most one refresh fetch to the rate source is in
\* flight at any time.
C13_SingleFlightRefresh == Cardinality(InFlight) <= 1

-----------------------------------------------------------------------------
(* time.rs: Time, Time::from_str, Display for Time, to_24, to_12,
   to_opposite, run *)

TimeNotation == {"TwelveHour", "TwentyFourHour"}

\* u8::MAX
U8Max == 255

\* <u8 as FromStr>::from_str: an optional '+', then decimal digits, at most
\* u8::MAX
parse_u8(s) ==
    LET body == IF s # <<>> /\ Head(s) = "+" THEN Tail(s) ELSE s
    IN IF s = <<>>
       THEN [ok |-> FALSE, message |-> "cannot parse integer from empty string"]
       ELSE IF body = <<>> \/ \E i \in 1..Len(body) : ~IsDigit(body[i])
       THEN [ok |-> FALSE, message |-> "invalid digit found in string"]
       ELSE IF DigitsVal(body) > U8Max
       THEN [ok |-> FALSE, message |-> "number too large to fit in target type"]
       ELSE [ok |-> TRUE, value |-> DigitsVal(body)]

\* s.split(':'): the sections between the colons, at least one
RECURSIVE split_colon(_)
split_colon(s) ==
    IF \A i \in 1..Len(s) : s[i] # ":" THEN <<s>>
    ELSE LET k == CHOOSE i \in 1..Len(s) :
                      s[i] = ":" /\ \A j \in 1..(i - 1) : s[j] # ":"
         IN <<SubSeq(s, 1, k - 1)>> \o split_colon(SubSeq(s, k + 1, Len(s)))

\* Time::new
Time_new(kind) == [kind |-> kind, hours |-> 0, minutes |-> 0, seconds |-> 0]

\* the suffix test of Time::from_str on the lowercased text: "pm", else "am"
from_str_suffix(s) ==
    IF ends_with(s, <<"p", "m">>)
    THEN [s |-> strip_suffix(s, <<"p", "m">>), kind |-> "TwelveHour", pm |-> TRUE]
    ELSE IF ends_with(s, <<"a", "m">>)
    THEN [s |-> strip_suffix(s, <<"a", "m">>), kind |-> "TwelveHour", pm |-> FALSE]
    ELSE [s |-> s, kind |-> "TwentyFourHour", pm |-> FALSE]

\* Mutation of from_str_hours: `pm && x <= 12`
from_str_hours_le(kind, pm, x) ==
    IF kind = "TwelveHour"
    THEN IF ~pm /\ x = 12 THEN x - 12
         ELSE IF pm /\ x <= 12 THEN x + 12
         ELSE x
    ELSE x

\* `time.hours = { ... }` of Time::from_str: the hour stored for the parsed x
from_str_hours(kind, pm, x) ==
    IF kind = "TwelveHour"
    THEN IF ~pm /\ x = 12 THEN x - 12
         ELSE IF pm /\ x < 12 THEN x + 12
         ELSE x
    ELSE x

\* the `while i < sections.len()` loop of Time::from_str from section i on
\* (sections are numbered from 1 here)
RECURSIVE from_str_sections(_, _, _, _, _)
from_str_sections(sections, i, kind, pm, time) ==
    IF i > Len(sections) THEN [ok |-> TRUE, time |-> time]
    ELSE LET p == parse_u8(trim(sections[i]))
         IN IF ~p.ok
            THEN [ok |-> FALSE,
                  message |-> p.message \o " " \o Join(sections[i])]
            ELSE from_str_sections(sections, i + 1, kind, pm,
                     CASE i = 1 ->
                              [time EXCEPT !.hours = from_str_hours(kind, pm, p.value)]
                       [] i = 2 -> [time EXCEPT !.minutes = p.value]
                       [] i = 3 -> [time EXCEPT !.seconds = p.value]
                       [] OTHER -> time)

\* Time::from_str after the suffix test: split, count and parse the sections
from_str_split(x, sections) ==
    IF Len(sections) \in {1, 2, 3}
    THEN from_str_sections(sections, 1, x.kind, x.pm, Time_new(x.kind))
    ELSE [ok |-> FALSE, message |-> "Too many sections!"]

\* <Time as FromStr>::from_str
Time_from_str(s) ==
    from_str_split(from_str_suffix(to_lowercase(s)),
                   split_colon(from_str_suffix(to_lowercase(s)).s))

\* {:02}: at least two digits
Pad2(n) == IF n < 10 THEN "0" \o NatStr(n) ELSE NatStr(n)

\* Mutation of display_twelve: `self.hours >= 12` in place of `> 12`
display_twelve_ge(hours) ==
    IF hours = 0 \/ hours = 24 THEN [period |-> "AM", hours |-> 12]
    ELSE IF hours >= 12 THEN [period |-> "PM", hours |-> hours - 12]
    ELSE [period |-> "AM", hours |-> hours]

\* `let (period, hours) = ...` of Display for Time, TwelveHour
display_twelve(hours) ==
    IF hours = 0 \/ hours = 24 THEN [period |-> "AM", hours |-> 12]
    ELSE IF hours > 12 THEN [period |-> "PM", hours |-> hours - 12]
    ELSE IF hours = 12 THEN [period |-> "PM", hours |-> hours]
    ELSE [period |-> "AM", hours |-> hours]

\* Display for Time
TimeString(time) ==
    IF time.kind = "TwelveHour"
    THEN Pad2(display_twelve(time.hours).hours) \o ":" \o Pad2(time.minutes)
             \o ":" \o Pad2(time.seconds) \o " "
             \o display_twelve(time.hours).period
    ELSE Pad2(time.hours) \o ":" \o Pad2(time.minutes) \o ":"
             \o Pad2(time.seconds)

\* Time::to_24
to_24(time) == [time EXCEPT !.kind = "TwentyFourHour"]

\* Time::to_12
to_12(time) == [time EXCEPT !.kind = "TwelveHour"]

\* Time::to_opposite
to_opposite(time) ==
    IF time.kind = "TwentyFourHour" THEN to_12(time) ELSE to_24(time)

\* run of time.rs
time_run(t) ==
    IF Time_from_str(t).ok
    THEN TimeString(Time_from_str(t).time) \o " -> "
             \o TimeString(to_opposite(Time_from_str(t).time))
    ELSE "'" \o Join(t)
             \o "' is in improper form. Examples: '12:20 PM' or '17:00:08'."

-----------------------------------------------------------------------------
(* Clock times (SpecTime): a text is parsed by Time::from_str or handed to
   run; a parsed Time is rendered and its notation switched any number of
   times.  No converter is held. *)

\* the largest hour written in the inputs
MaxHour == 24

\* the decimal digits of a natural number, as text
RECURSIVE NatText(_)
NatText(n) ==
    IF n < 10 THEN <<Digits[n + 1]>>
    ELSE NatText(n \div 10) \o <<Digits[(n % 10) + 1]>>

\* an hour as written: plain, and zero-padded below ten
HourTexts(h) == {NatText(h)} \cup (IF h < 10 THEN {<<"0">> \o NatText(h)} ELSE {})

\* what follows the hour, with the minutes and seconds it means
TimeTails ==
    {[text |-> <<>>, minutes |-> 0, seconds |-> 0],
     [text |-> <<":", "4", "0">>, minutes |-> 40, seconds |-> 0],
     [text |-> <<":", "0", "0", ":", "0", "0">>, minutes |-> 0, seconds |-> 0],
     [text |-> <<":", "4", "5", ":", "0", "2">>, minutes |-> 45, seconds |-> 2],
     [text |-> <<":", "0", ":", "0", "5">>, minutes |-> 0, seconds |-> 5]}

\* the suffix as written, with the period it means
TimeSuffixes ==
    {[text |-> <<>>, period |-> "none"],
     [text |-> <<" ", "A", "M">>, period |-> "AM"],
     [text |-> <<" ", "P", "M">>, period |-> "PM"],
     [text |-> <<"a", "m">>, period |-> "AM"],
     [text |-> <<" ", "p", "M">>, period |-> "PM"]}

\* "<h><tail><suffix>" with the hour, minutes, seconds and period written
TimeSamples ==
    UNION {{[text |-> ht \o tl.text \o sf.text, hour |-> h,
             minutes |-> tl.minutes, seconds |-> tl.seconds,
             period |-> sf.period] :
               ht \in HourTexts(h), tl \in TimeTails, sf \in TimeSuffixes} :
           h \in 0..MaxHour}

\* texts that are no clock time, or an unusual one
OddTimes ==
    {<<>>, <<"x">>, <<"p", "m">>, <<"6", ":", "x", "x">>, <<"-", "1">>,
     <<"+", "5">>, <<"2", "5", "6">>, <<"2", "5", "5", ":", "2", "5", "5">>,
     <<"1", ":", "2", ":", "3", ":", "4">>, <<"6", ":", ":", "5">>,
     <<"6", " ", "x", "m">>, <<" ", "7", " ", ":", " ", "8", " ", "P", "M">>}

TimeInputs == {smp.text : smp \in TimeSamples} \cup OddTimes

InitTime ==
    \E i \in TimeInputs :
        /\ now = 0
        /\ converter = NoConverter
        /\ last = [op |-> "call", input |-> i]

\* Time::from_str(input) returned r
Parsed(r) ==
    /\ last' = IF r.ok
               THEN [op |-> "from_str", input |-> last.input, result |-> r,
                     time |-> r.time, shown |-> TimeString(r.time)]
               ELSE [op |-> "from_str_failed", input |-> last.input, result |-> r]
    /\ UNCHANGED <<now, converter>>

FromStr == last.op = "call" /\ Parsed(Time_from_str(last.input))

\* run(input) of time.rs
TimeRun ==
    /\ last.op = "call"
    /\ last' = [op |-> "time_run", input |-> last.input,
                text |-> time_run(last.input)]
    /\ UNCHANGED <<now, converter>>

\* a Time is held: it was parsed, and maybe switched since
HoldsTime == last.op \in {"from_str", "to_24", "to_12", "to_opposite"}

\* the Time held was switched by `op` to `time`; from: the Time before
Switched(op, time) ==
    /\ last' = [op |-> op, input |-> last.input, result |-> last.result,
                from |-> last.time, time |-> time, shown |-> TimeString(time)]
    /\ UNCHANGED <<now, converter>>

To24 == HoldsTime /\ Switched("to_24", to_24(last.time))

To12 == HoldsTime /\ Switched("to_12", to_12(last.time))

ToOpposite == HoldsTime /\ Switched("to_opposite", to_opposite(last.time))

NextTime == FromStr \/ TimeRun \/ To24 \/ To12 \/ ToOpposite

SpecTime == InitTime /\ [][NextTime]_vars

\* the hour a sample is stored with, in 24-hour notation
StoredHour(smp) ==
    CASE smp.period = "PM" /\ smp.hour < 12 -> smp.hour + 12
      [] smp.period = "AM" /\ smp.hour = 12 -> 0
      [] OTHER -> smp.hour

\* C15: Time::from_str stores the hour in 24-hour notation: with a PM suffix
\* an hour h < 12 is stored as h + 12 and 12 stays 12, with an AM suffix 12
\* is stored as 0 and other hours unchanged, and without a suffix the hour is
\* stored unchanged with kind TwentyFourHour; minutes and seconds are stored
\* as written; to_24, to_12 and to_opposite set the notation kind and leave
\* hours, minutes and seconds unchanged.
C15_StoredHour ==
    /\ \A smp \in TimeSamples :
           (last.op = "from_str" /\ last.input = smp.text
            /\ (smp.period = "PM" => smp.hour <= 12)) =>
               /\ last.time.hours = StoredHour(smp)
               /\ last.time.minutes = smp.minutes
               /\ last.time.seconds = smp.seconds
               /\ last.time.kind = IF smp.period = "none" THEN "TwentyFourHour"
                                   ELSE "TwelveHour"
    /\ last.op \in {"to_24", "to_12", "to_opposite"} =>
           /\ last.time.hours = last.from.hours
           /\ last.time.minutes = last.from.minutes
           /\ last.time.seconds = last.from.seconds
           /\ DOMAIN last.time = DOMAIN last.from
           /\ last.time.kind =
                  CASE last.op = "to_24" -> "TwentyFourHour"
                    [] last.op = "to_12" -> "TwelveHour"
                    [] last.op = "to_opposite" ->
                           CHOOSE k \in TimeNotation : k # last.from.kind

\* "6:45:02 PM", stored as 18:45:02, was switched to the opposite notation
C15_Witness ==
    /\ last.op = "to_opposite"
    /\ last.input = <<"6", ":", "4", "5", ":", "0", "2", " ", "P", "M">>
    /\ last.time = [kind |-> "TwentyFourHour", hours |-> 18, minutes |-> 45,
                    seconds |-> 2]

\* C16: a Time parsed from a valid text, rendered in its own notation,
\* reproduces that time zero-padded: h:mm:ss AM/PM with 1 <= h <= 12 renders
\* as "hh:mm:ss AM" or "hh:mm:ss PM" with the same hour and period, and a
\* 24-hour text with 0 <= h <= 23 renders as "hh:mm:ss" with the same hour.
C16_RenderOwnNotation ==
    \A smp \in TimeSamples :
        (last.op = "from_str" /\ last.input = smp.text) =>
            /\ (smp.period # "none" /\ smp.hour \in 1..12) =>
                   last.shown = Pad2(smp.hour) \o ":" \o Pad2(smp.minutes) \o ":"
                                    \o Pad2(smp.seconds) \o " " \o smp.period
            /\ (smp.period = "none" /\ smp.hour \in 0..23) =>
                   last.shown = Pad2(smp.hour) \o ":" \o Pad2(smp.minutes) \o ":"
                                    \o Pad2(smp.seconds)

\* "12:00:00 PM" was parsed and rendered
C16_Witness ==
    /\ last.op = "from_str"
    /\ last.input = <<"1", "2", ":", "0", "0", ":", "0", "0", " ", "P", "M">>
    /\ last.shown = "12:00:00 PM"

-----------------------------------------------------------------------------
(* Calls with a max_age of a day or more (SpecDay): as Spec, the converter
   being built with any max_age up to a day and a tick, as the tests build
   theirs with Duration::hours(24). *)

\* the max_age of the converters of SpecDay
DayAges == (0..MaxAge) \cup {DayLen, DayLen + 1}

InitDay ==
    /\ now \in 0..(DayLen - 1)
    /\ converter \in {CurrencyConverter_new("NONE", age, now,
                          [ok |-> TRUE, data |-> ResponseA]).converter :
                      age \in DayAges}
    /\ last = [op |-> "none"]

SpecDay == InitDay /\ [][Next]_vars

\* the converter run was passed, with its snapshot's timestamp moved to w
Redated(w) == [last.before EXCEPT !.exchange_rates.when = w]

\* the instants that fall on the time of day of the snapshot run was passed
SameTimeOfDay ==
    {w \in 0..MaxTime :
        time_of_day(w) = time_of_day(last.before.exchange_rates.when)}

====
